---- MODULE Spec2Model ----
(***************************************************************************)
(* Model of the Azure Kinect body tracking type header (k4abttypes.h) and  *)
(* its version header (k4abtversion.h).                                    *)
(*                                                                         *)
(* The headers declare two enumerations, a quaternion union, the joint /   *)
(* skeleton / body structures, three constants, a default configuration    *)
(* and a version.  The model keeps the declarations as data (enumerator    *)
(* lists, member lists, literal tokens) and computes ordinals, offsets and *)
(* literal values from them by the rules of C, so that a changed           *)
(* declaration changes the computed value.                                 *)
(*                                                                         *)
(* Values wider than 31 bits are sequences of bytes, least significant     *)
(* byte first: the memory image of the value on the little-endian targets  *)
(* the SDK ships for.                                                      *)
(***************************************************************************)
EXTENDS Integers, Sequences, FiniteSets, TLC

VARIABLES
    q,              \* a k4a_quaternion_t object: its storage, byte offset -> float
    qlast,          \* the most recent write to q: the view, the component, the value
    cfg,            \* a caller's k4abt_tracker_configuration_t
    cfgFromDefault, \* TRUE while cfg is the copy of K4ABT_TRACKER_CONFIG_DEFAULT
    smoothing,      \* a caller's float holding a temporal smoothing factor
    smoothingSrc,   \* where smoothing got its value: "zero", "default" or "caller"
    ver,            \* the version a caller recorded from the version macros
    body,           \* a caller's k4abt_body_t
    idSrc,          \* the integer constant most recently assigned to body.id
    access,         \* the most recent subscript applied to body.skeleton.joints
    nAccess         \* the number of subscripts applied so far

vars == <<q, qlast, cfg, cfgFromDefault, smoothing, smoothingSrc, ver,
          body, idSrc, access, nAccess>>

quatVars == <<q, qlast>>
setupVars == <<cfg, cfgFromDefault, smoothing, smoothingSrc, ver>>
bodyVars == <<body, idSrc, access, nAccess>>

(***************************************************************************)
(* Bounds of the model.                                                    *)
(***************************************************************************)
\* float sample values are 0..MaxFloat
MaxFloat == 4
\* at most MaxAccess subscripts are applied to the joints array
MaxAccess == 2
\* a caller sets smoothing factors of 0 to MaxTenths tenths
MaxTenths == 10

FloatVals == 0..MaxFloat

(***************************************************************************)
(* Enumerations.  An enumerator is its name and its initializer: <<>> when *)
(* the declaration gives none, <<n>> for "= n".                            *)
(***************************************************************************)
E(n) == [name |-> n, init |-> <<>>]
EI(n, v) == [name |-> n, init |-> <<v>>]

\* a declaration with one more joint, after the left wrist
k4abt_joint_id_t_hands ==
    << EI("K4ABT_JOINT_PELVIS", 0),
       E("K4ABT_JOINT_SPINE_NAVAL"),
       E("K4ABT_JOINT_SPINE_CHEST"),
       E("K4ABT_JOINT_NECK"),
       E("K4ABT_JOINT_CLAVICLE_LEFT"),
       E("K4ABT_JOINT_SHOULDER_LEFT"),
       E("K4ABT_JOINT_ELBOW_LEFT"),
       E("K4ABT_JOINT_WRIST_LEFT"),
       E("K4ABT_JOINT_HAND_LEFT"),
       E("K4ABT_JOINT_CLAVICLE_RIGHT"),
       E("K4ABT_JOINT_SHOULDER_RIGHT"),
       E("K4ABT_JOINT_ELBOW_RIGHT"),
       E("K4ABT_JOINT_WRIST_RIGHT"),
       E("K4ABT_JOINT_HIP_LEFT"),
       E("K4ABT_JOINT_KNEE_LEFT"),
       E("K4ABT_JOINT_ANKLE_LEFT"),
       E("K4ABT_JOINT_FOOT_LEFT"),
       E("K4ABT_JOINT_HIP_RIGHT"),
       E("K4ABT_JOINT_KNEE_RIGHT"),
       E("K4ABT_JOINT_ANKLE_RIGHT"),
       E("K4ABT_JOINT_FOOT_RIGHT"),
       E("K4ABT_JOINT_HEAD"),
       E("K4ABT_JOINT_NOSE"),
       E("K4ABT_JOINT_EYE_LEFT"),
       E("K4ABT_JOINT_EAR_LEFT"),
       E("K4ABT_JOINT_EYE_RIGHT"),
       E("K4ABT_JOINT_EAR_RIGHT"),
       E("K4ABT_JOINT_COUNT") >>

k4abt_joint_id_t ==
    << EI("K4ABT_JOINT_PELVIS", 0),
       E("K4ABT_JOINT_SPINE_NAVAL"),
       E("K4ABT_JOINT_SPINE_CHEST"),
       E("K4ABT_JOINT_NECK"),
       E("K4ABT_JOINT_CLAVICLE_LEFT"),
       E("K4ABT_JOINT_SHOULDER_LEFT"),
       E("K4ABT_JOINT_ELBOW_LEFT"),
       E("K4ABT_JOINT_WRIST_LEFT"),
       E("K4ABT_JOINT_CLAVICLE_RIGHT"),
       E("K4ABT_JOINT_SHOULDER_RIGHT"),
       E("K4ABT_JOINT_ELBOW_RIGHT"),
       E("K4ABT_JOINT_WRIST_RIGHT"),
       E("K4ABT_JOINT_HIP_LEFT"),
       E("K4ABT_JOINT_KNEE_LEFT"),
       E("K4ABT_JOINT_ANKLE_LEFT"),
       E("K4ABT_JOINT_FOOT_LEFT"),
       E("K4ABT_JOINT_HIP_RIGHT"),
       E("K4ABT_JOINT_KNEE_RIGHT"),
       E("K4ABT_JOINT_ANKLE_RIGHT"),
       E("K4ABT_JOINT_FOOT_RIGHT"),
       E("K4ABT_JOINT_HEAD"),
       E("K4ABT_JOINT_NOSE"),
       E("K4ABT_JOINT_EYE_LEFT"),
       E("K4ABT_JOINT_EAR_LEFT"),
       E("K4ABT_JOINT_EYE_RIGHT"),
       E("K4ABT_JOINT_EAR_RIGHT"),
       E("K4ABT_JOINT_COUNT") >>

\* a declaration that numbers the last orientation by its angle
k4abt_sensor_orientation_t_angle ==
    << EI("K4ABT_SENSOR_ORIENTATION_DEFAULT", 0),
       E("K4ABT_SENSOR_ORIENTATION_CLOCKWISE90"),
       E("K4ABT_SENSOR_ORIENTATION_COUNTERCLOCKWISE90"),
       EI("K4ABT_SENSOR_ORIENTATION_FLIP180", 180) >>

k4abt_sensor_orientation_t ==
    << EI("K4ABT_SENSOR_ORIENTATION_DEFAULT", 0),
       E("K4ABT_SENSOR_ORIENTATION_CLOCKWISE90"),
       E("K4ABT_SENSOR_ORIENTATION_COUNTERCLOCKWISE90"),
       E("K4ABT_SENSOR_ORIENTATION_FLIP180") >>

\* The value of the i-th enumerator of a declaration (C11 6.7.2.2): its
\* initializer when it has one, otherwise 0 for the first enumerator and one
\* more than the previous enumerator for the others.
RECURSIVE EnumOrdinal(_, _)
EnumOrdinal(decl, i) ==
    IF decl[i].init # <<>> THEN decl[i].init[1]
    ELSE IF i = 1 THEN 0
    ELSE EnumOrdinal(decl, i - 1) + 1

\* The value of the enumerator called n.
EnumValue(decl, n) ==
    EnumOrdinal(decl, CHOOSE i \in 1..Len(decl) : decl[i].name = n)

\* The values of all the enumerators of a declaration.
EnumValues(decl) == { EnumOrdinal(decl, i) : i \in 1..Len(decl) }

K4ABT_JOINT_COUNT == EnumValue(k4abt_joint_id_t, "K4ABT_JOINT_COUNT")

K4ABT_SENSOR_ORIENTATION_DEFAULT ==
    EnumValue(k4abt_sensor_orientation_t, "K4ABT_SENSOR_ORIENTATION_DEFAULT")

(***************************************************************************)
(* k4a_quaternion_t: a union of struct _wxyz { float w, x, y, z; } and     *)
(* float v[4].  Both members start at offset 0 of the union; a member of   *)
(* the struct lies after the members declared before it, an element of the *)
(* array at its index times the element size.  All members are float, so   *)
(* no padding is inserted.                                                 *)
(*                                                                         *)
(* The header is compiled as C and, inside extern "C", as C++.  C defines  *)
(* a read of the member not last written as a reinterpretation of the      *)
(* stored bytes; C++ leaves it undefined, and the compilers the SDK        *)
(* supports (MSVC, GCC, Clang) give it the C meaning.  Both views have     *)
(* element type float, so the model reads a cell as the float last stored  *)
(* in it.                                                                  *)
(***************************************************************************)
SizeofFloat == 4

\* the members in the order x, y, z, w
wxyz_xyzw == <<"x", "y", "z", "w">>

\* the members of struct _wxyz in declaration order
wxyz == <<"w", "x", "y", "z">>

\* the number of elements of v
v_len == 4

\* offsetof(struct _wxyz, f)
OffsetOfField(f) ==
    SizeofFloat * ((CHOOSE i \in 1..Len(wxyz) : wxyz[i] = f) - 1)

\* the offset of v[i]
OffsetOfElem(i) == i * SizeofFloat

SizeofWxyz == Len(wxyz) * SizeofFloat
SizeofV == v_len * SizeofFloat

\* sizeof(k4a_quaternion_t): the size of its largest member
SizeofQuaternion == IF SizeofWxyz >= SizeofV THEN SizeofWxyz ELSE SizeofV

\* the float cells of the union's storage, by byte offset
QuatCells == { k * SizeofFloat : k \in 0..((SizeofQuaternion \div SizeofFloat) - 1) }

\* q.wxyz.f
ReadField(quat, f) == quat[OffsetOfField(f)]

\* q.v[i]
ReadElem(quat, i) == quat[OffsetOfElem(i)]

\* a quaternion object with all its bytes zero
ZeroQuaternion == [c \in QuatCells |-> 0]

NoWrite == [view |-> "none", field |-> "", index |-> -1, val |-> 0]

\* q.wxyz = (struct _wxyz){ .f = x }: the other members are set to zero
WriteField_whole(f, x) ==
    /\ q' = [c \in QuatCells |-> IF c = OffsetOfField(f) THEN x ELSE 0]
    /\ qlast' = [view |-> "wxyz", field |-> f, index |-> -1, val |-> x]
    /\ UNCHANGED <<setupVars, bodyVars>>

\* q.wxyz.f = x
WriteField(f, x) ==
    /\ q' = [q EXCEPT ![OffsetOfField(f)] = x]
    /\ qlast' = [view |-> "wxyz", field |-> f, index |-> -1, val |-> x]
    /\ UNCHANGED <<setupVars, bodyVars>>

\* q.v[i] = x
WriteElem(i, x) ==
    /\ q' = [q EXCEPT ![OffsetOfElem(i)] = x]
    /\ qlast' = [view |-> "v", field |-> "", index |-> i, val |-> x]
    /\ UNCHANGED <<setupVars, bodyVars>>

(***************************************************************************)
(* Integer constants.  The value of a constant is a sequence of bytes,     *)
(* least significant first, without leading zero bytes (so 0 is <<>>).     *)
(***************************************************************************)
RECURSIVE Strip(_)
Strip(b) ==
    IF Len(b) > 0 /\ b[Len(b)] = 0 THEN Strip(SubSeq(b, 1, Len(b) - 1)) ELSE b

\* The value of the hexadecimal constant whose digits (after 0x, most
\* significant first) are d: two digits make one byte.
RECURSIVE HexBytes(_)
HexBytes(d) ==
    IF Len(d) = 0 THEN <<>>
    ELSE IF Len(d) = 1 THEN <<d[1]>>
    ELSE <<16 * d[Len(d) - 1] + d[Len(d)]>> \o HexBytes(SubSeq(d, 1, Len(d) - 2))

HexConstant(d) == Strip(HexBytes(d))

\* The value of the small non-negative integer n.
RECURSIVE IntBytes(_)
IntBytes(n) == IF n = 0 THEN <<>> ELSE <<n % 256>> \o IntBytes(n \div 256)

\* conversion to uint16_t: the value modulo 2^16, in the four bytes
ToUint32_short(b) == [i \in 1..4 |-> IF i <= Len(b) /\ i <= 2 THEN b[i] ELSE 0]

\* Conversion to uint32_t (C11 6.3.1.3): the value modulo 2^32, as the four
\* bytes of the object.
ToUint32(b) == [i \in 1..4 |-> IF i <= Len(b) THEN b[i] ELSE 0]

\* Conversion to uint8_t: the value modulo 2^8.
ToUint8(b) == IF Len(b) = 0 THEN 0 ELSE b[1]

\* #define K4ABT_BODY_INDEX_MAP_BACKGROUND 255
K4ABT_BODY_INDEX_MAP_BACKGROUND == 255

\* 0xFFFFFFF, one digit short
K4ABT_INVALID_BODY_ID_short == HexConstant(<<15, 15, 15, 15, 15, 15, 15>>)

\* #define K4ABT_INVALID_BODY_ID 0xFFFFFFFF
K4ABT_INVALID_BODY_ID == HexConstant(<<15, 15, 15, 15, 15, 15, 15, 15>>)

(***************************************************************************)
(* Floating constants.  A decimal floating constant with suffix f is the   *)
(* pair of its digits read as an integer and the number of digits after    *)
(* the point; its value is the nearest binary32 number, mant * 2^(-scale)  *)
(* with 2^23 <= mant < 2^24, and exact says whether rounding changed it.   *)
(***************************************************************************)
RECURSIVE Pow(_, _)
Pow(b, n) == IF n = 0 THEN 1 ELSE b * Pow(b, n - 1)

\* the least k with num * 2^k >= 2^23 * den
RECURSIVE Scale(_, _, _)
Scale(num, den, k) ==
    IF num * Pow(2, k) >= Pow(2, 23) * den THEN k ELSE Scale(num, den, k + 1)

FloatConstant(digits, fracDigits) ==
    IF digits = 0 THEN [mant |-> 0, scale |-> 0, exact |-> TRUE] ELSE
    LET den == Pow(10, fracDigits)
        k == Scale(digits, den, 0)
        scaled == digits * Pow(2, k)
        down == scaled \div den
        rest == scaled % den
        \* round to nearest, ties to even
        up == (2 * rest > den) \/ (2 * rest = den /\ down % 2 = 1)
    IN  [mant |-> IF up THEN down + 1 ELSE down, scale |-> k, exact |-> rest = 0]

\* 0.05f
K4ABT_DEFAULT_TRACKER_SMOOTHING_FACTOR_small == FloatConstant(5, 2)

\* #define K4ABT_DEFAULT_TRACKER_SMOOTHING_FACTOR 0.5f
K4ABT_DEFAULT_TRACKER_SMOOTHING_FACTOR == FloatConstant(5, 1)

(***************************************************************************)
(* Version.                                                                *)
(***************************************************************************)
K4ABT_VERSION_MAJOR == 0
K4ABT_VERSION_MINOR == 9
K4ABT_VERSION_PATCH == 2
K4ABT_VERSION_PRERELEASE == <<>>
K4ABT_VERSION_BUILD_METADATA == <<>>

\* the string of the next patch release
K4ABT_VERSION_STR_next == <<"0", ".", "9", ".", "3">>

\* the characters of the string literal
K4ABT_VERSION_STR == <<"0", ".", "9", ".", "2">>

(***************************************************************************)
(* Structures.  A struct is the list of its members in declaration order;  *)
(* a brace-enclosed initializer list gives the i-th value to the i-th      *)
(* member and zero to the members it does not reach (C11 6.7.9).           *)
(***************************************************************************)
BraceInit(members, inits) ==
    [m \in { members[i] : i \in 1..Len(members) } |->
        LET i == CHOOSE k \in 1..Len(members) : members[k] = m
        IN  IF i <= Len(inits) THEN inits[i] ELSE 0]

\* the members of struct _k4abt_tracker_configuration_t
k4abt_tracker_configuration_t == <<"sensor_orientation">>

\* a default that mounts the sensor upside-down
K4ABT_TRACKER_CONFIG_DEFAULT_flip ==
    BraceInit(k4abt_tracker_configuration_t,
              <<EnumValue(k4abt_sensor_orientation_t, "K4ABT_SENSOR_ORIENTATION_FLIP180")>>)

\* static const k4abt_tracker_configuration_t K4ABT_TRACKER_CONFIG_DEFAULT =
\*     { K4ABT_SENSOR_ORIENTATION_DEFAULT };
K4ABT_TRACKER_CONFIG_DEFAULT ==
    BraceInit(k4abt_tracker_configuration_t, <<K4ABT_SENSOR_ORIENTATION_DEFAULT>>)

\* a k4abt_joint_t with all its bytes zero; position is a k4a_float3_t
ZeroJoint == [position |-> <<0, 0, 0>>, orientation |-> ZeroQuaternion]

\* a joint a tracker may report: a position in millimeters and the identity
\* rotation
SampleJoint ==
    [position |-> <<1, 2, 3>>,
     orientation |-> [ZeroQuaternion EXCEPT ![OffsetOfField("w")] = 1]]

\* an array one element short
joints_len_short == K4ABT_JOINT_COUNT - 1

\* the number of elements of k4abt_skeleton_t.joints
joints_len == K4ABT_JOINT_COUNT

\* a k4abt_skeleton_t with all its bytes zero
ZeroSkeleton == [joints |-> [i \in 0..(joints_len - 1) |-> ZeroJoint]]

\* a k4abt_body_t with all its bytes zero
ZeroBody == [id |-> ToUint32(<<>>), skeleton |-> ZeroSkeleton]

\* i designates an element of an array of n elements
InBounds(n, i) == 0 <= i /\ i < n

\* the integer constants assigned to body.id: 0, 1, the invalid id and a
\* constant of 33 bits
IdConstants ==
    { IntBytes(0), IntBytes(1), K4ABT_INVALID_BODY_ID,
      HexConstant(<<1, 15, 15, 15, 15, 15, 15, 15, 15>>) }

NoAccess == [index |-> -1, ok |-> FALSE]

\* cfg = K4ABT_TRACKER_CONFIG_DEFAULT
ConfigDefault ==
    /\ cfg' = K4ABT_TRACKER_CONFIG_DEFAULT
    /\ cfgFromDefault' = TRUE
    /\ UNCHANGED <<smoothing, smoothingSrc, ver>>
    /\ UNCHANGED <<quatVars, bodyVars>>

\* cfg.sensor_orientation = o
SetOrientation(o) ==
    /\ cfg' = [cfg EXCEPT !.sensor_orientation = o]
    /\ cfgFromDefault' = FALSE
    /\ UNCHANGED <<smoothing, smoothingSrc, ver>>
    /\ UNCHANGED <<quatVars, bodyVars>>

\* smoothing = K4ABT_DEFAULT_TRACKER_SMOOTHING_FACTOR
SmoothingDefault ==
    /\ smoothing' = K4ABT_DEFAULT_TRACKER_SMOOTHING_FACTOR
    /\ smoothingSrc' = "default"
    /\ UNCHANGED <<cfg, cfgFromDefault, ver>>
    /\ UNCHANGED <<quatVars, bodyVars>>

\* smoothing = 0.tf (1.0f for t = 10)
SetSmoothing(t) ==
    /\ smoothing' = FloatConstant(t, 1)
    /\ smoothingSrc' = "caller"
    /\ UNCHANGED <<cfg, cfgFromDefault, ver>>
    /\ UNCHANGED <<quatVars, bodyVars>>

NoVersion == [str |-> <<>>, num |-> <<>>]

\* the caller records K4ABT_VERSION_STR and the three version numbers
RecordVersion ==
    /\ ver' = [str |-> K4ABT_VERSION_STR,
               num |-> <<K4ABT_VERSION_MAJOR, K4ABT_VERSION_MINOR, K4ABT_VERSION_PATCH>>]
    /\ UNCHANGED <<cfg, cfgFromDefault, smoothing, smoothingSrc>>
    /\ UNCHANGED <<quatVars, bodyVars>>

\* body.id = c
SetBodyId(c) ==
    /\ body' = [body EXCEPT !.id = ToUint32(c)]
    /\ idSrc' = c
    /\ UNCHANGED <<access, nAccess>>
    /\ UNCHANGED <<quatVars, setupVars>>

\* body.skeleton.joints[j] = jv for a value j of type k4abt_joint_id_t.  A
\* subscript outside the array designates no element: the model records it
\* and stores nothing.
SetJoint(j, jv) ==
    /\ nAccess < MaxAccess
    /\ nAccess' = nAccess + 1
    /\ access' = [index |-> j, ok |-> InBounds(joints_len, j)]
    /\ body' = IF InBounds(joints_len, j)
               THEN [body EXCEPT !.skeleton.joints[j] = jv]
               ELSE body
    /\ UNCHANGED idSrc
    /\ UNCHANGED <<quatVars, setupVars>>

(***************************************************************************)
(* Specifications.  The objects start with all bytes zero.                 *)
(***************************************************************************)
Init ==
    /\ q = ZeroQuaternion
    /\ qlast = NoWrite
    /\ cfg = BraceInit(k4abt_tracker_configuration_t, <<>>)
    /\ cfgFromDefault = FALSE
    /\ smoothing = FloatConstant(0, 0)
    /\ smoothingSrc = "zero"
    /\ ver = NoVersion
    /\ body = ZeroBody
    /\ idSrc = IntBytes(0)
    /\ access = NoAccess
    /\ nAccess = 0

NextQuat ==
    \/ \E f \in { wxyz[i] : i \in 1..Len(wxyz) }, x \in FloatVals : WriteField(f, x)
    \/ \E i \in 0..(v_len - 1), x \in FloatVals : WriteElem(i, x)

NextSetup ==
    \/ ConfigDefault
    \/ \E o \in EnumValues(k4abt_sensor_orientation_t) : SetOrientation(o)
    \/ SmoothingDefault
    \/ \E t \in 0..MaxTenths : SetSmoothing(t)
    \/ RecordVersion

NextBody ==
    \/ \E c \in IdConstants : SetBodyId(c)
    \/ \E j \in EnumValues(k4abt_joint_id_t) : SetJoint(j, SampleJoint)

Next == NextQuat \/ NextSetup \/ NextBody

\* the accesses to a quaternion
SpecQuat == Init /\ [][NextQuat]_vars

\* the configuration, the smoothing factor and the version
SpecSetup == Init /\ [][NextSetup]_vars

\* the body: its id and its joints
SpecBody == Init /\ [][NextBody]_vars

\* the three together; their variables are disjoint

Spec == Init /\ [][Next]_vars

(***************************************************************************)
(* Properties.                                                             *)
(***************************************************************************)
\* the number of enumerators of k4abt_joint_id_t before the last one
NamedJoints == Len(k4abt_joint_id_t) - 1

\* the values of the named joints
NamedJointValues == { EnumOrdinal(k4abt_joint_id_t, i) : i \in 1..NamedJoints }

\* C1: k4abt_joint_id_t has exactly 26 named joints before the count
\* sentinel; their ordinals are pairwise distinct and are 0..25 in the
\* declared order, K4ABT_JOINT_PELVIS = 0 first and K4ABT_JOINT_EAR_RIGHT = 25
\* last; the sentinel K4ABT_JOINT_COUNT is 26, the number of named joints.
C1_JointOrdinals ==
    /\ k4abt_joint_id_t[NamedJoints + 1].name = "K4ABT_JOINT_COUNT"
    /\ NamedJoints = 26
    /\ \A i \in 1..NamedJoints : EnumOrdinal(k4abt_joint_id_t, i) = i - 1
    /\ \A i, j \in 1..NamedJoints :
          i # j => /\ EnumOrdinal(k4abt_joint_id_t, i) # EnumOrdinal(k4abt_joint_id_t, j)
                   /\ k4abt_joint_id_t[i].name # k4abt_joint_id_t[j].name
    /\ k4abt_joint_id_t[1].name = "K4ABT_JOINT_PELVIS"
    /\ EnumValue(k4abt_joint_id_t, "K4ABT_JOINT_PELVIS") = 0
    /\ k4abt_joint_id_t[NamedJoints].name = "K4ABT_JOINT_EAR_RIGHT"
    /\ EnumValue(k4abt_joint_id_t, "K4ABT_JOINT_EAR_RIGHT") = 25
    /\ K4ABT_JOINT_COUNT = 26
    /\ K4ABT_JOINT_COUNT = Cardinality(NamedJointValues)
    /\ access.ok => access.index \in 0..25
    /\ (access # NoAccess /\ ~access.ok) => access.index = 26

\* the last named joint has been used as a subscript and a joint stored there
C1_Witness ==
    /\ access.index = EnumValue(k4abt_joint_id_t, "K4ABT_JOINT_EAR_RIGHT")
    /\ access.ok
    /\ body.skeleton.joints[25] = SampleJoint

C2_Inv ==
    /\ DOMAIN body.skeleton.joints = 0..25
    /\ Cardinality(DOMAIN body.skeleton.joints) = K4ABT_JOINT_COUNT
    /\ NamedJointValues \subseteq DOMAIN body.skeleton.joints
    /\ K4ABT_JOINT_COUNT \notin DOMAIN body.skeleton.joints
    /\ access # NoAccess =>
          /\ access.ok <=> access.index \in NamedJointValues
          /\ ~access.ok <=> access.index = K4ABT_JOINT_COUNT

C2_Step ==
    nAccess' # nAccess =>
        /\ \A k \in DOMAIN body.skeleton.joints :
              k # access'.index => body'.skeleton.joints[k] = body.skeleton.joints[k]
        /\ access'.ok => body'.skeleton.joints[access'.index] = SampleJoint
        /\ DOMAIN body'.skeleton.joints = DOMAIN body.skeleton.joints

\* C2: k4abt_skeleton_t.joints has exactly K4ABT_JOINT_COUNT (26) elements:
\* every named joint identifier 0..25 is an index within the array and the
\* sentinel K4ABT_JOINT_COUNT is not; a store through an index changes the one
\* joint at that index and no other.
C2_JointsBounds == []C2_Inv /\ [][C2_Step]_vars

\* the sentinel was used as a subscript after a joint had been stored
C2_Witness ==
    /\ access.index = K4ABT_JOINT_COUNT
    /\ ~access.ok
    /\ \E k \in DOMAIN body.skeleton.joints : body.skeleton.joints[k] = SampleJoint

\* the element of v the claims pair with each named member
ComponentOf == [w |-> 0, x |-> 1, y |-> 2, z |-> 3]
MemberOf == <<"w", "x", "y", "z">>

\* C3: the array view of a k4a_quaternion_t aliases the named members:
\* v[0] = w, v[1] = x, v[2] = y, v[3] = z for any values; a value assigned to
\* a named member is read through the matching element of v, and a value
\* written through v[i] is read back unchanged through the matching member.
C3_ViewsAlias ==
    /\ <<ReadElem(q, 0), ReadElem(q, 1), ReadElem(q, 2), ReadElem(q, 3)>>
          = <<ReadField(q, "w"), ReadField(q, "x"), ReadField(q, "y"), ReadField(q, "z")>>
    /\ qlast.view = "wxyz" => ReadElem(q, ComponentOf[qlast.field]) = qlast.val
    /\ qlast.view = "v" => ReadField(q, MemberOf[qlast.index + 1]) = qlast.val

\* w = 1, x = 2, y = 3, z = 4 read as v = [1, 2, 3, 4], the last of them
\* assigned through a named member
C3_Witness ==
    /\ qlast.view = "wxyz"
    /\ <<ReadField(q, "w"), ReadField(q, "x"), ReadField(q, "y"), ReadField(q, "z")>>
          = <<1, 2, 3, 4>>
    /\ <<ReadElem(q, 0), ReadElem(q, 1), ReadElem(q, 2), ReadElem(q, 3)>> = <<1, 2, 3, 4>>

\* C4: K4ABT_TRACKER_CONFIG_DEFAULT.sensor_orientation equals
\* K4ABT_SENSOR_ORIENTATION_DEFAULT, whose ordinal is 0; a configuration
\* initialised from the default constant carries the default orientation and
\* has no other field.
C4_DefaultConfig ==
    /\ K4ABT_TRACKER_CONFIG_DEFAULT.sensor_orientation = K4ABT_SENSOR_ORIENTATION_DEFAULT
    /\ K4ABT_SENSOR_ORIENTATION_DEFAULT = 0
    /\ DOMAIN K4ABT_TRACKER_CONFIG_DEFAULT = {"sensor_orientation"}
    /\ cfgFromDefault =>
          /\ cfg.sensor_orientation = 0
          /\ DOMAIN cfg = {"sensor_orientation"}

\* a configuration was initialised from the default constant
C4_Witness == cfgFromDefault /\ cfg = K4ABT_TRACKER_CONFIG_DEFAULT

\* One step of the long division of a byte sequence by 10, from the most
\* significant byte down: the quotient bytes (least significant first) and
\* the remainder.
RECURSIVE DivTen(_, _)
DivTen(b, n) ==
    IF n = 0 THEN [quot |-> <<>>, rem |-> 0]
    ELSE LET hi == DivTen(SubSeq(b, 2, Len(b)), n - 1)
             cur == hi.rem * 256 + b[1]
         IN  [quot |-> <<cur \div 10>> \o hi.quot, rem |-> cur % 10]

\* the decimal digits of a value, most significant first
RECURSIVE Decimal(_)
Decimal(b) ==
    IF Strip(b) = <<>> THEN <<>>
    ELSE LET d == DivTen(Strip(b), Len(Strip(b)))
         IN  Decimal(d.quot) \o <<d.rem>>

\* C5: K4ABT_BODY_INDEX_MAP_BACKGROUND is 255 and K4ABT_INVALID_BODY_ID is
\* 0xFFFFFFFF, that is 4294967295; the invalid body id is not 0.
C5_Constants ==
    /\ K4ABT_BODY_INDEX_MAP_BACKGROUND = 255
    /\ K4ABT_INVALID_BODY_ID = <<255, 255, 255, 255>>
    /\ Decimal(K4ABT_INVALID_BODY_ID) = <<4, 2, 9, 4, 9, 6, 7, 2, 9, 5>>
    /\ K4ABT_INVALID_BODY_ID # IntBytes(0)
    /\ idSrc = K4ABT_INVALID_BODY_ID =>
          /\ body.id = <<255, 255, 255, 255>>
          /\ body.id # ZeroBody.id

\* a body carries the invalid id, which differs from the id of a zeroed body
C5_Witness ==
    /\ idSrc = K4ABT_INVALID_BODY_ID
    /\ body.id = <<255, 255, 255, 255>>
    /\ body.id # ZeroBody.id

DigitChar == <<"0", "1", "2", "3", "4", "5", "6", "7", "8", "9">>

\* the decimal numeral of n as characters
RECURSIVE Numeral(_)
Numeral(n) ==
    IF n < 10 THEN <<DigitChar[n + 1]>>
    ELSE Numeral(n \div 10) \o <<DigitChar[(n % 10) + 1]>>

\* C6: K4ABT_VERSION_STR is "0.9.2" and is MAJOR "." MINOR "." PATCH for
\* K4ABT_VERSION_MAJOR = 0, K4ABT_VERSION_MINOR = 9, K4ABT_VERSION_PATCH = 2,
\* followed by the prerelease and build metadata, which are both empty.
C6_Version ==
    /\ K4ABT_VERSION_STR = <<"0", ".", "9", ".", "2">>
    /\ K4ABT_VERSION_MAJOR = 0
    /\ K4ABT_VERSION_MINOR = 9
    /\ K4ABT_VERSION_PATCH = 2
    /\ K4ABT_VERSION_PRERELEASE = <<>>
    /\ K4ABT_VERSION_BUILD_METADATA = <<>>
    /\ K4ABT_VERSION_STR =
          Numeral(K4ABT_VERSION_MAJOR) \o <<".">> \o Numeral(K4ABT_VERSION_MINOR)
             \o <<".">> \o Numeral(K4ABT_VERSION_PATCH)
             \o K4ABT_VERSION_PRERELEASE \o K4ABT_VERSION_BUILD_METADATA
    /\ ver # NoVersion =>
          ver.str = Numeral(ver.num[1]) \o <<".">> \o Numeral(ver.num[2])
                       \o <<".">> \o Numeral(ver.num[3])

\* a caller recorded the version: the string "0.9.2" and the numbers 0, 9, 2
C6_Witness ==
    /\ ver.str = <<"0", ".", "9", ".", "2">>
    /\ ver.num = <<0, 9, 2>>

\* C7: k4abt_sensor_orientation_t has exactly 4 named values with pairwise
\* distinct ordinals 0..3 in the order DEFAULT = 0, CLOCKWISE90 = 1,
\* COUNTERCLOCKWISE90 = 2, FLIP180 = 3; a configuration holds one of them.
C7_Orientations ==
    /\ Len(k4abt_sensor_orientation_t) = 4
    /\ [i \in 1..4 |-> k4abt_sensor_orientation_t[i].name]
          = << "K4ABT_SENSOR_ORIENTATION_DEFAULT",
               "K4ABT_SENSOR_ORIENTATION_CLOCKWISE90",
               "K4ABT_SENSOR_ORIENTATION_COUNTERCLOCKWISE90",
               "K4ABT_SENSOR_ORIENTATION_FLIP180" >>
    /\ [i \in 1..4 |-> EnumOrdinal(k4abt_sensor_orientation_t, i)] = <<0, 1, 2, 3>>
    /\ Cardinality(EnumValues(k4abt_sensor_orientation_t)) = 4
    /\ cfg.sensor_orientation \in 0..3

\* a configuration mounts the sensor upside-down
C7_Witness ==
    /\ ~cfgFromDefault
    /\ cfg.sensor_orientation
          = EnumValue(k4abt_sensor_orientation_t, "K4ABT_SENSOR_ORIENTATION_FLIP180")
    /\ cfg.sensor_orientation = 3

\* C8: K4ABT_DEFAULT_TRACKER_SMOOTHING_FACTOR is 0.5: the constant 0.5f is
\* represented exactly in single precision, as 2^23 * 2^(-24), and lies
\* strictly between 0 and 1.
C8_SmoothingFactor ==
    LET f == K4ABT_DEFAULT_TRACKER_SMOOTHING_FACTOR
    IN  /\ f.exact
        /\ 2 * f.mant = Pow(2, f.scale)
        /\ 0 < f.mant
        /\ f.mant < Pow(2, f.scale)
        /\ smoothingSrc = "default" =>
              /\ smoothing.exact
              /\ 2 * smoothing.mant = Pow(2, smoothing.scale)

\* a smoothing factor was set from the constant: the normalised binary32
\* number with significand 2^23 and exponent -24
C8_Witness ==
    /\ smoothingSrc = "default"
    /\ smoothing.mant = Pow(2, 23)
    /\ smoothing.scale = 24

\* the component written by the most recent write
Written(w) == IF w.view = "wxyz" THEN ComponentOf[w.field] ELSE w.index

C9_Step ==
    /\ \A k \in (0..3) \ {Written(qlast')} :
          /\ ReadElem(q', k) = ReadElem(q, k)
          /\ ReadField(q', MemberOf[k + 1]) = ReadField(q, MemberOf[k + 1])
    /\ ReadElem(q', Written(qlast')) = qlast'.val
    /\ ReadField(q', MemberOf[Written(qlast') + 1]) = qlast'.val
    /\ \A k \in 0..3 : ReadElem(q', k) = ReadField(q', MemberOf[k + 1])
    /\ DOMAIN q' = DOMAIN q

\* C9: a write to one component of a k4a_quaternion_t, through either view,
\* changes only that component: the other three keep their values in both
\* views, the two views agree on all four components, and the union holds
\* exactly 4 floats, neither view extending past the other.
C9_WriteFrame ==
    /\ [](SizeofWxyz = SizeofV /\ SizeofQuaternion = 4 * SizeofFloat
            /\ Cardinality(DOMAIN q) = 4)
    /\ [][C9_Step]_vars

\* an element was written through v while the other components were non-zero
C9_Witness ==
    /\ qlast.view = "v"
    /\ qlast.index = 2
    /\ ReadField(q, "y") = qlast.val
    /\ \A f \in {"w", "x", "z"} : ReadField(q, f) # 0

\* a value plus one
RECURSIVE Succ(_)
Succ(b) ==
    IF Len(b) = 0 THEN <<1>>
    ELSE IF b[1] < 255 THEN <<b[1] + 1>> \o SubSeq(b, 2, Len(b))
    ELSE <<0>> \o Succ(SubSeq(b, 2, Len(b)))

\* C10: K4ABT_INVALID_BODY_ID fits the unsigned 32-bit id of a k4abt_body_t:
\* it is 2^32 - 1, the largest value of the field, so an id assigned the
\* constant reads back as the constant; its low 8 bits are
\* K4ABT_BODY_INDEX_MAP_BACKGROUND (255).
C10_InvalidIdFits ==
    /\ Succ(K4ABT_INVALID_BODY_ID) = <<0, 0, 0, 0, 1>>
    /\ Strip(ToUint32(K4ABT_INVALID_BODY_ID)) = K4ABT_INVALID_BODY_ID
    /\ Strip(ToUint32(Succ(K4ABT_INVALID_BODY_ID))) = IntBytes(0)
    /\ Len(body.id) = 4
    /\ \A i \in 1..4 : body.id[i] <= K4ABT_INVALID_BODY_ID[i]
    /\ idSrc = K4ABT_INVALID_BODY_ID => Strip(body.id) = K4ABT_INVALID_BODY_ID
    /\ ToUint8(K4ABT_INVALID_BODY_ID) = K4ABT_BODY_INDEX_MAP_BACKGROUND

\* the constant was assigned to the id of a body with a stored joint
C10_Witness ==
    /\ idSrc = K4ABT_INVALID_BODY_ID
    /\ Strip(body.id) = idSrc
    /\ ToUint8(body.id) = 255
    /\ nAccess > 0

====
